---- MODULE Spec2Model ----
(***************************************************************************)
(* Model of src/app.py (PIDWS Command Center): the ingestion function      *)
(* process_alarm_df, the corpus reader get_historic_data with its          *)
(* st.cache_data cache, upload_to_azure, and the Streamlit script body     *)
(* (tab1 upload/commit, tab2 dashboard, tab3 deep analysis).               *)
(* The application part follows one browser session on the container: a   *)
(* step is one run of the script, which ends at the end of the script, at  *)
(* an upload that raises, or where the run is stopped.                     *)
(*                                                                         *)
(* Encodings.                                                              *)
(*  - A timestamp is a natural number of seconds.  A nullable value is a   *)
(*    record [nan, v]: NaN/NaT is [nan |-> TRUE, v |-> 0].                 *)
(*  - Response_Time_Mins and Duration_Mins are kept in sixtieths of a      *)
(*    minute (the numerator of total_seconds() / 60), so that 30 minutes   *)
(*    is 30 * SecsPerMin and no precision is lost.                         *)
(*  - A column label is a sequence of tokens, the whitespace tokens being  *)
(*    " " and "\n", so that strip() and replace('\n', ' ') are computed.   *)
(*  - A raw cell is [kind, t]: "empty" (NaN), "text" (not a date) or       *)
(*    "time" (text that parses to the timestamp t).                        *)
(***************************************************************************)
EXTENDS Integers, Sequences, FiniteSets, TLC

VARIABLES
    inFile,          \* SpecIngest: the (filename, bytes) handed to process_alarm_df
    outDf,           \* SpecIngest: what process_alarm_df returned
    ingested,        \* SpecIngest: whether process_alarm_df has run
    store,           \* the blob container: a set of blobs [name, doc, created]
    cache,           \* st.cache_data entry of get_historic_data: [valid, value]
    uploaded_files,  \* the file_uploader widget's files
    tab1,            \* what tab1 rendered in the last script run
    tab2,            \* what tab2 rendered in the last script run
    session,         \* st.session_state: [analysis_active]
    runs,            \* the number of script runs so far
    lastRun          \* history: what the last script run did

vars == <<inFile, outDf, ingested, store, cache, uploaded_files,
          tab1, tab2, session, runs, lastRun>>

----------------------------------------------------------------------------
(* Bounds and program constants *)

MaxRows == 2
MaxPre == 4
MaxSheets == 2
MaxBatch == 2
MaxDay == 2
MaxRuns == 3

HeaderOffset == 3
SOP_LIMIT == 30
SecsPerMin == 60
KpiCards == 4
Charts == 2

----------------------------------------------------------------------------
(* Nullable values *)

NaN == [nan |-> TRUE, v |-> 0]
Val(x) == [nan |-> FALSE, v |-> x]

RECURSIVE SeqSum(_)
SeqSum(s) == IF s = <<>> THEN 0 ELSE Head(s) + SeqSum(Tail(s))

RECURSIVE Flatten(_)
Flatten(ss) == IF ss = <<>> THEN <<>> ELSE Head(ss) \o Flatten(Tail(ss))

\* int(x) of the quotient n / d, d > 0: truncation toward zero
TruncDiv(n, d) == IF n >= 0 THEN n \div d ELSE -((-n) \div d)

----------------------------------------------------------------------------
(* Column labels: [str(c).strip().replace('\n', ' ') for c in df.columns] *)

IsSpace(tok) == tok \in {" ", "\n"}

RECURSIVE LStrip(_)
LStrip(l) == IF l # <<>> /\ IsSpace(Head(l)) THEN LStrip(Tail(l)) ELSE l

RECURSIVE RStrip(_)
RStrip(l) ==
    IF l # <<>> /\ IsSpace(l[Len(l)]) THEN RStrip(SubSeq(l, 1, Len(l) - 1)) ELSE l

Strip(l) == RStrip(LStrip(l))

ReplaceNewline(l) == [i \in 1..Len(l) |-> IF l[i] = "\n" THEN " " ELSE l[i]]

NormalizeLabel(l) == ReplaceNewline(Strip(l))

NormalizeColumns(cols) == [i \in 1..Len(cols) |-> NormalizeLabel(cols[i])]

ColAlertTime == <<"Alert", " ", "Time">>
ColVerification == <<"Verification", " ", "Date/Time">>
ColSeverity == <<"Alert", " ", "Type/Severity">>
ColDuration == <<"Alert", " ", "Duration(HH:MM:SS)">>

required_cols == <<ColAlertTime, ColVerification, ColSeverity>>

HasColumn(cols, c) == \E i \in 1..Len(cols) : cols[i] = c

\* a gate that passes a table holding any one of the required columns
HasRequiredColsAny(cols) ==
    \E j \in 1..Len(required_cols) : HasColumn(cols, required_cols[j])

\* all(col in df.columns for col in required_cols)
HasRequiredCols(cols) ==
    \A j \in 1..Len(required_cols) : HasColumn(cols, required_cols[j])

----------------------------------------------------------------------------
(* Cells *)

EmptyCell == [kind |-> "empty", t |-> 0]
TextCell == [kind |-> "text", t |-> 0]
TimeCell(s) == [kind |-> "time", t |-> s]

\* pd.to_datetime(col, dayfirst=True, errors='coerce')
to_datetime(cell) == IF cell.kind = "time" THEN Val(cell.t) ELSE NaN

\* Series.notna() on the raw column
NotNa(cell) == cell.kind # "empty"

\* .astype(str).str.lower(): NaN becomes the string 'nan'
Lower(s) ==
    CASE s = "High" -> "high"
      [] s = "HIGH RISK" -> "high risk"
      [] s = "Medium" -> "medium"
      [] s = "NaN" -> "nan"
      [] OTHER -> s

\* .str.contains('high') on the lowercased strings of the model
ContainsHigh(s) == s \in {"high", "high risk"}

\* parse_duration: the cell split on ':' is a sequence of parts [int, v]
parse_duration(parts) ==
    IF Len(parts) = 3 /\ \A i \in 1..3 : parts[i].int
    THEN parts[1].v * 60 * SecsPerMin + parts[2].v * SecsPerMin + parts[3].v
    ELSE 0

----------------------------------------------------------------------------
(* File names: str.upper(), str.lower(), str.endswith() on the names used *)

Upper(s) ==
    CASE s = "alarm_0502" -> "ALARM_0502"
      [] s = "log" -> "LOG"
      [] s = "report" -> "REPORT"
      [] s = "Alarm Log" -> "ALARM LOG"
      [] s = "Sheet1" -> "SHEET1"
      [] s = "Summary" -> "SUMMARY"
      [] s = ".csv" -> ".CSV"
      [] s = ".xlsx" -> ".XLSX"
      [] s = ".xls" -> ".XLS"
      [] OTHER -> s

LowerExt(e) ==
    CASE e = ".CSV" -> ".csv"
      [] e = ".XLSX" -> ".xlsx"
      [] e = ".XLS" -> ".xls"
      [] OTHER -> e

\* "ALARM" in x, for x an uppercased string of the model
ContainsALARM(u) == u \in {"ALARM_0502", "ALARM LOG"}

\* filename.lower().endswith(('.xls', '.xlsx'))
IsExcelName(name) == LowerExt(name.ext) \in {".xls", ".xlsx"}

\* "ALARM" in blob.name.upper() or blob.name.endswith(('.xlsx', '.xls'))
IncludedInCorpus(name) ==
    \/ ContainsALARM(Upper(name.base)) \/ ContainsALARM(Upper(name.ext))
    \/ name.ext \in {".xlsx", ".xls"}

----------------------------------------------------------------------------
(* process_alarm_df *)

None == [ok |-> FALSE, rows |-> <<>>]

Raised == [ok |-> FALSE, columns |-> <<>>, rows |-> <<>>]

\* the labels pandas makes of a data row that is read as the header row
CellLabel(cell) ==
    CASE cell.kind = "empty" -> <<"Unnamed:", " ", "0">>
      [] cell.kind = "text" -> <<"n/a">>
      [] OTHER -> <<"05/02/2026", " ", "10:00">>

PreambleLabels == <<<<"PIDWS", " ", "Extraction", " ", "Report">>>>

\* The lines of a sheet are its pre preamble lines, its header line and its
\* data rows.  pd.read_csv / pd.read_excel with header=n take line n as the
\* column labels and the lines after it as the rows, and raise when the
\* sheet has no line n.  Rows read under labels that are not the header's
\* are not told apart here: such a table never passes the required_cols gate.
ReadTableAt(sheet, n) ==
    IF sheet.pre = n
    THEN [ok |-> TRUE, columns |-> sheet.hdr, rows |-> sheet.rows]
    ELSE IF sheet.pre > n
    THEN [ok |-> TRUE, columns |-> PreambleLabels, rows |-> <<>>]
    ELSE IF Len(sheet.rows) >= n - sheet.pre
    THEN LET r == sheet.rows[n - sheet.pre]
         IN [ok |-> TRUE,
             columns |-> <<CellLabel(r.alert), CellLabel(r.ver), <<r.sev>>>>,
             rows |-> <<>>]
    ELSE Raised

ReadTable(sheet) == ReadTableAt(sheet, HeaderOffset)

\* target_sheet: the first sheet whose name holds "ALARM", else the first
RECURSIVE FirstAlarmSheet(_, _)
FirstAlarmSheet(sheets, i) ==
    IF i > Len(sheets) THEN 1
    ELSE IF ContainsALARM(Upper(sheets[i].title)) THEN i
    ELSE FirstAlarmSheet(sheets, i + 1)

TargetSheet(sheets) == FirstAlarmSheet(sheets, 1)

\* pd.ExcelFile + pd.read_excel for an Excel name, pd.read_csv otherwise;
\* bytes of the other kind (or unreadable bytes) make the reader raise
ReadDocument(doc, name) ==
    IF IsExcelName(name)
    THEN IF doc.fmt = "excel" /\ doc.sheets # <<>>
         THEN ReadTable(doc.sheets[TargetSheet(doc.sheets)])
         ELSE Raised
    ELSE IF doc.fmt = "csv" /\ doc.sheets # <<>>
         THEN ReadTable(doc.sheets[1])
         ELSE Raised

\* (df['Verification Date/Time'] - df['Alert Time']).dt.total_seconds() / 60
ResponseTimeMins(a, v) == IF a.nan \/ v.nan THEN NaN ELSE Val(v.v - a.v)

\* a threshold that counts exactly 30 minutes as a violation
SOPViolationGeq(resp) == ~resp.nan /\ resp.v >= SOP_LIMIT * SecsPerMin

\* df['Response_Time_Mins'] > 30 (NaN > 30 is False)
SOPViolation(resp) == ~resp.nan /\ resp.v > SOP_LIMIT * SecsPerMin

\* (df['Is_High']) & (df['Verification Date/Time'].isna())
IsCriticalGap(high, v) == high /\ v.nan

DeriveRow(r, hasDuration) ==
    LET a == to_datetime(r.alert)
        v == to_datetime(r.ver)
        resp == ResponseTimeMins(a, v)
        sev == Lower(r.sev)
        high == ContainsHigh(sev)
    IN [Alert_Time |-> a,
        Verification |-> v,
        Response_Time_Mins |-> resp,
        SOP_Violation |-> SOPViolation(resp),
        Severity_Clean |-> sev,
        Is_High |-> high,
        Is_Critical_Gap |-> IsCriticalGap(high, v),
        Duration_Mins |-> IF hasDuration THEN parse_duration(r.dur) ELSE 0]

\* df = df[df['Alert Time'].notna()], applied before pd.to_datetime
KeepRow(r) == NotNa(r.alert)

process_alarm_df(doc, name) ==
    LET t == ReadDocument(doc, name)
        cols == NormalizeColumns(t.columns)
    IN IF ~t.ok THEN None
       ELSE IF ~HasRequiredCols(cols) THEN None
       ELSE LET kept == SelectSeq(t.rows, KeepRow)
            IN [ok |-> TRUE,
                rows |-> [i \in 1..Len(kept) |->
                             DeriveRow(kept[i], HasColumn(cols, ColDuration))]]

----------------------------------------------------------------------------
(* Inputs of process_alarm_df *)

SeqsUpTo(S, n) == UNION {[1..k -> S] : k \in 0..n}

DurNone == <<>>
DurGood == <<[int |-> TRUE, v |-> 1], [int |-> TRUE, v |-> 2], [int |-> TRUE, v |-> 30]>>
DurGarbage == <<[int |-> FALSE, v |-> 0]>>
DurShort == <<[int |-> TRUE, v |-> 2], [int |-> TRUE, v |-> 30]>>

\* 60 -> 1860 is exactly 30 minutes, 60 -> 1861 one second more, 60 -> 0 negative
AlertCells == {EmptyCell, TextCell, TimeCell(60)}
VerCells == {EmptyCell, TextCell, TimeCell(0), TimeCell(1860), TimeCell(1861)}
SevCells == {"NaN", "High", "Medium"}

RawRows ==
    [alert : AlertCells, ver : VerCells, sev : SevCells, dur : {DurNone}]

RowLate == [alert |-> TimeCell(60), ver |-> TimeCell(1861), sev |-> "Medium", dur |-> DurGood]
RowOnTime == [alert |-> TimeCell(60), ver |-> TimeCell(1860), sev |-> "High", dur |-> DurShort]
RowUnverified == [alert |-> TimeCell(60), ver |-> EmptyCell, sev |-> "HIGH RISK", dur |-> DurGarbage]
RowBadAlert == [alert |-> TextCell, ver |-> TimeCell(1860), sev |-> "High", dur |-> DurNone]
RowNoAlert == [alert |-> EmptyCell, ver |-> EmptyCell, sev |-> "NaN", dur |-> DurNone]

HdrStd == <<ColAlertTime, ColVerification, ColSeverity, <<"Section">>>>
HdrSpaced ==
    <<<<" ", "Alert", " ", "Time">>, <<"Verification", "\n", "Date/Time">>,
      <<"Alert", " ", "Type/Severity", " ", "\n">>, ColDuration>>
HdrNoVerification == <<ColAlertTime, ColSeverity, <<"Section">>>>
HdrNoSeverity == <<ColAlertTime, ColVerification>>
HdrLowerCase == <<<<"alert", " ", "time">>, ColVerification, ColSeverity>>
HdrDoubleSpace == <<<<"Alert", " ", "\n", "Time">>, ColVerification, ColSeverity>>

Headers ==
    {HdrStd, HdrSpaced, HdrNoVerification, HdrNoSeverity, HdrLowerCase, HdrDoubleSpace}

SampleTables ==
    {<<>>, <<RowLate, RowUnverified>>, <<RowNoAlert, RowBadAlert, RowOnTime, RowLate>>}

Titles == {"Sheet1", "Alarm Log", "Summary"}

NameAlarmCsv == [base |-> "alarm_0502", ext |-> ".csv"]
NameLogCsv == [base |-> "log", ext |-> ".csv"]
NameReportXlsx == [base |-> "report", ext |-> ".xlsx"]
NameReportXLSX == [base |-> "report", ext |-> ".XLSX"]

IngestNames == {NameAlarmCsv, NameLogCsv, NameReportXlsx, NameReportXLSX}

\* the names of the model that pass the filter of get_historic_data
CorpusNames == {n \in IngestNames : IncludedInCorpus(n)}

Sheet(title, pre, hdr, rows) ==
    [title |-> title, pre |-> pre, hdr |-> hdr, rows |-> rows]

\* one-sheet documents of every structure
StructSheets ==
    {Sheet(t, p, h, r) : t \in Titles, p \in 0..MaxPre, h \in Headers, r \in SampleTables}

\* the sheets of the workbooks with several sheets
BookSheets ==
    {Sheet("Sheet1", HeaderOffset, HdrStd, <<RowLate>>),
     Sheet("Summary", HeaderOffset, HdrNoVerification, <<RowLate>>),
     Sheet("Alarm Log", HeaderOffset, HdrSpaced, <<RowUnverified, RowBadAlert>>),
     Sheet("Alarm Log", 0, HdrStd, <<RowLate>>)}

\* well-formed documents with every table of up to MaxRows raw rows
RowSheets ==
    {Sheet("Sheet1", HeaderOffset, h, r) :
        h \in {HdrStd, HdrSpaced}, r \in SeqsUpTo(RawRows, MaxRows)}

Doc(fmt, sheets) == [fmt |-> fmt, sheets |-> sheets]

IngestDocs ==
    {Doc(f, <<sh>>) : f \in {"csv", "excel"}, sh \in StructSheets}
    \cup {Doc("excel", shs) : shs \in SeqsUpTo(BookSheets, MaxSheets) \ {<<>>}}
    \cup {Doc("csv", <<sh>>) : sh \in RowSheets}
    \cup {Doc("garbage", <<>>)}

IngestFiles ==
    [name : IngestNames, doc : IngestDocs \ {Doc("csv", <<sh>>) : sh \in RowSheets}]
    \cup [name : {NameAlarmCsv}, doc : {Doc("csv", <<sh>>) : sh \in RowSheets}]

----------------------------------------------------------------------------
(* The files of the application runs *)

DocMixed == Doc("csv", <<Sheet("Sheet1", HeaderOffset, HdrStd, <<RowLate, RowUnverified>>)>>)
DocUnverified == Doc("csv", <<Sheet("Sheet1", HeaderOffset, HdrSpaced, <<RowUnverified>>)>>)
DocBadAlert ==
    Doc("excel", <<Sheet("Summary", HeaderOffset, HdrNoVerification, <<RowLate>>),
                   Sheet("Alarm Log", HeaderOffset, HdrStd, <<RowBadAlert>>)>>)
DocSummary == Doc("excel", <<Sheet("Summary", HeaderOffset, HdrNoVerification, <<RowLate>>)>>)

File(name, doc) == [name |-> name, doc |-> doc]

\* the files the user has at hand for the uploader
AppFiles ==
    {File(NameAlarmCsv, DocMixed), File(NameLogCsv, DocUnverified),
     File(NameReportXlsx, DocSummary)}

\* the files of the objects the container may hold when the session starts
StoredFiles ==
    {File(NameAlarmCsv, DocMixed), File(NameReportXlsx, DocBadAlert),
     File(NameReportXlsx, DocSummary)}

Batches == SeqsUpTo(AppFiles, MaxBatch)

\* process_alarm_df on each file of the application runs
Processed == [f \in AppFiles \cup StoredFiles |-> process_alarm_df(f.doc, f.name)]

\* The runs of the model happen on one day, today; the container may hold
\* objects of earlier days.
today == MaxDay

Blob(f, d) == [name |-> f.name, doc |-> f.doc, created |-> d]

\* the containers the session may start with: empty, or holding objects
\* written on an earlier day (two alarm logs, or a report that is no alarm
\* log)
InitialStores ==
    {{}} \cup
    UNION {{ {Blob(File(NameAlarmCsv, DocMixed), d),
              Blob(File(NameReportXlsx, DocBadAlert), d)},
             {Blob(File(NameReportXlsx, DocSummary), d)} } : d \in 1..(MaxDay - 1)}

----------------------------------------------------------------------------
(* The blob container, upload_to_azure and get_historic_data *)

RECURSIVE SetToSeq(_)
SetToSeq(S) ==
    IF S = {} THEN <<>>
    ELSE LET x == CHOOSE y \in S : TRUE IN <<x>> \o SetToSeq(S \ {x})

\* the blob names of the model in list_blobs order (lexicographic)
NameOrder == <<NameAlarmCsv, NameLogCsv, NameReportXLSX, NameReportXlsx>>

\* container_client.list_blobs()
list_blobs(st) ==
    Flatten([i \in 1..Len(NameOrder) |-> SetToSeq({b \in st : b.name = NameOrder[i]})])

\* blob_client.upload_blob(file, overwrite=True).  Whether the service keeps
\* the creation time of a blob it overwrites is not decided by this code:
\* keep chooses.
upload_to_azure(st, f, keep) ==
    LET old == {b \in st : b.name = f.name}
        created == IF keep /\ old # {} THEN (CHOOSE b \in old : TRUE).created ELSE today
    IN (st \ old) \cup {[name |-> f.name, doc |-> f.doc, created |-> created]}

\* the uploads of the commit loop: files[1..n], in order
RECURSIVE UploadAll(_, _, _, _)
UploadAll(st, files, n, keep) ==
    IF n = 0 THEN st
    ELSE upload_to_azure(UploadAll(st, files, n - 1, keep), files[n], keep)

\* df['Source_File'] = blob.name; df['Log_Date'] = blob.creation_time.date()
TagRows(rows, b) ==
    [i \in 1..Len(rows) |->
        rows[i] @@ [Source_File |-> b.name, Log_Date |-> b.created]]

BlobEvents(b) == TagRows(Processed[File(b.name, b.doc)].rows, b)

\* a loop that stops at the first object it cannot download
RECURSIVE CorpusUntilFailure(_, _)
CorpusUntilFailure(blobs, failed) ==
    IF blobs = <<>> THEN <<>>
    ELSE LET b == Head(blobs)
         IN IF b.name \notin CorpusNames THEN CorpusUntilFailure(Tail(blobs), failed)
            ELSE IF b.name \in failed THEN <<>>
            ELSE BlobEvents(b) \o CorpusUntilFailure(Tail(blobs), failed)

\* The body of get_historic_data over the listed blobs; failed holds the
\* names whose download raises (the except: continue branch).  A rejected
\* object (None) has no rows to add.
RECURSIVE CorpusOf(_, _)
CorpusOf(blobs, failed) ==
    IF blobs = <<>> THEN <<>>
    ELSE LET b == Head(blobs)
         IN IF b.name \notin CorpusNames THEN CorpusOf(Tail(blobs), failed)
            ELSE IF b.name \in failed THEN CorpusOf(Tail(blobs), failed)
            ELSE BlobEvents(b) \o CorpusOf(Tail(blobs), failed)

\* the names get_historic_data downloads
Downloadable(st) == {b.name : b \in st} \cap CorpusNames

\* @st.cache_data(ttl=600): the cached value when there is one
get_historic_data(c, st, failed) ==
    IF c.valid THEN c.value ELSE CorpusOf(list_blobs(st), failed)

NoCache == [valid |-> FALSE, value |-> <<>>]

----------------------------------------------------------------------------
(* Aggregations of tab1 and tab2 *)

IsGap(e) == e.Is_Critical_Gap
IsBreach(e) == e.SOP_Violation
HasAlert(e) == ~e.Alert_Time.nan
HasResponse(e) == ~e.Response_Time_Mins.nan

\* Series.mean() of Response_Time_Mins: NaN when no value is defined, else
\* the quotient num / den of sixtieths of a minute
MeanResponse(rows) ==
    LET defd == SelectSeq(rows, HasResponse)
    IN IF defd = <<>> THEN [nan |-> TRUE, num |-> 0, den |-> 1]
       ELSE [nan |-> FALSE,
             num |-> SeqSum([i \in 1..Len(defd) |-> defd[i].Response_Time_Mins.v]),
             den |-> Len(defd)]

\* if pd.isna(avg_response): avg_response = 0; then int(avg_response)
AvgResponseCard(mean) ==
    IF mean.nan THEN Val(0) ELSE Val(TruncDiv(mean.num, mean.den * SecsPerMin))

IsAccepted(f) == Processed[f].ok

\* a validation loop that keeps every uploaded file
ValidFilesAll(files) == files

\* valid_files: the uploaded files process_alarm_df returned a table for
ValidFiles(files) == SelectSeq(files, IsAccepted)

\* all_valid_dfs is non-empty
HasValidDfs(files) == \E i \in 1..Len(files) : IsAccepted(files[i])

\* df_preview = pd.concat(all_valid_dfs, ignore_index=True)
PreviewRows(files) ==
    LET ok == SelectSeq(files, IsAccepted)
    IN Flatten([i \in 1..Len(ok) |-> Processed[ok[i]].rows])

Tab1Idle ==
    [view |-> "idle", cards |-> 0, total |-> 0, gaps |-> 0, sop |-> 0,
     avg |-> Val(0), committed |-> FALSE]

\* tab1 when the run rendered the first n of its elements: the banner of
\* line 198 and the KpiCards metrics of lines 202-210 (or the message of
\* line 231).  A card that was not rendered shows nothing (0 here).
Tab1Upto(files, n, committed) ==
    IF files = <<>> \/ n = 0 THEN Tab1Idle
    ELSE IF ~HasValidDfs(files) THEN [Tab1Idle EXCEPT !.view = "error"]
    ELSE LET Card(rows) ==
               [view |-> "preview",
                cards |-> n - 1,
                total |-> IF n > 1 THEN Len(rows) ELSE 0,
                gaps |-> IF n > 2 THEN Len(SelectSeq(rows, IsGap)) ELSE 0,
                sop |-> IF n > 3 THEN Len(SelectSeq(rows, IsBreach)) ELSE 0,
                avg |-> IF n > 4 THEN AvgResponseCard(MeanResponse(rows))
                                 ELSE Val(0),
                committed |-> committed]
         IN CHOOSE t \in {Card(rows) : rows \in {PreviewRows(files)}} : TRUE

\* tab1 of a run that went through it
Tab1(files, committed) == Tab1Upto(files, KpiCards + 1, committed)

RECURSIVE SortedSeq(_)
SortedSeq(S) ==
    IF S = {} THEN <<>>
    ELSE LET m == CHOOSE x \in S : \A y \in S : x <= y IN <<m>> \o SortedSeq(S \ {m})

\* hist_df.groupby('Log_Date').agg(...).reset_index()
DailyStats(hist) ==
    LET dates == SortedSeq({hist[i].Log_Date : i \in 1..Len(hist)})
    IN [k \in 1..Len(dates) |->
          LET OnDate(e) == e.Log_Date = dates[k]
              rows == SelectSeq(hist, OnDate)
          IN [Log_Date |-> dates[k],
              Total_Alarms |-> Len(SelectSeq(rows, HasAlert)),
              Avg_Response |-> MeanResponse(rows),
              Critical_Gaps |-> Len(SelectSeq(rows, IsGap)),
              SOP_Breaches |-> Len(SelectSeq(rows, IsBreach))]]

Min(a, b) == IF a <= b THEN a ELSE b

NoRate == [nan |-> FALSE, inf |-> FALSE, num |-> 0, den |-> 1]

\* 100 - (breaches / total * 100) on numpy integers: 0/0 is nan and x/0 inf,
\* neither raises
ComplianceRate(breaches, total) ==
    IF total = 0
    THEN [NoRate EXCEPT !.nan = (breaches = 0), !.inf = (breaches # 0)]
    ELSE [NoRate EXCEPT !.num = 100 * total - 100 * breaches, !.den = total]

NotRendered ==
    [shown |-> FALSE, cards |-> 0, charts |-> 0, daily_stats |-> <<>>,
     avg_alarms |-> 0, total_gaps |-> 0, compliance |-> NoRate, days |-> 0]

\* tab2 when the run rendered the first n of its elements: the heading of
\* line 253, the KpiCards metrics of lines 259-262 and the Charts charts of
\* lines 267-281, which plot daily_stats.  Nothing is rendered when
\* hist_df.empty.  A card that was not rendered shows nothing (0 here).
DashboardUpto(hist, n) ==
    IF hist = <<>> \/ n = 0 THEN NotRendered
    ELSE LET Row(ds) ==
               LET total == SeqSum([k \in 1..Len(ds) |-> ds[k].Total_Alarms])
                   breaches == SeqSum([k \in 1..Len(ds) |-> ds[k].SOP_Breaches])
               IN [shown |-> TRUE,
                   cards |-> Min(n - 1, KpiCards),
                   charts |-> IF n > 1 + KpiCards THEN n - 1 - KpiCards ELSE 0,
                   daily_stats |-> IF n > 1 + KpiCards THEN ds ELSE <<>>,
                   avg_alarms |-> IF n > 1 THEN TruncDiv(total, Len(ds)) ELSE 0,
                   total_gaps |->
                       IF n > 2
                       THEN SeqSum([k \in 1..Len(ds) |-> ds[k].Critical_Gaps])
                       ELSE 0,
                   compliance |-> IF n > 3 THEN ComplianceRate(breaches, total)
                                           ELSE NoRate,
                   days |-> IF n > 4 THEN Len(ds) ELSE 0]
         IN CHOOSE t \in {Row(ds) : ds \in {DailyStats(hist)}} : TRUE

\* tab2 of a run that went through it
Dashboard(hist) == DashboardUpto(hist, 1 + KpiCards + Charts)

----------------------------------------------------------------------------
(* One run of the script *)

NameEvents(corpus, n) ==
    LET FromName(e) == e.Source_File = n IN SelectSeq(corpus, FromName)

\* the names whose upload in files[1..n] overwrote a blob of the same bytes
Rewrote(st, files, n, keep) ==
    {files[j].name : j \in
        {i \in 1..n : \E b \in UploadAll(st, files, i - 1, keep) :
                         b.name = files[i].name /\ b.doc = files[i].doc}}

\* the names among pending whose stored events the corpus hist does not hold,
\* other than by a download that raised in this very read
Stale(pending, st, hist, excused) ==
    {n \in pending : \E b \in st : /\ b.name = n
                                  /\ n \notin excused
                                  /\ NameEvents(hist, n) # BlobEvents(b)}

\* the value of stopAt of a run that is not stopped in the commit handler
NoStop == MaxBatch + 2

\* Where a run can be stopped outside the commit handler (a rerun or stop
\* request is served at an st.* call): [at, n] is
\*   at "tab1": before the handlers of the Commit and Refresh buttons, n of
\*              tab1's elements rendered (0: at st.spinner of line 183 or
\*              before; up to KpiCards: inside the KPI row; KpiCards + 1:
\*              after the row, at st.dataframe, at a button or at the head
\*              of tab2, lines 212-237);
\*   at "tab2": after those handlers (the Commit handler done, Refresh's
\*              st.cache_data.clear() done); n = 0: before the corpus is
\*              read (the spinner of the cached call); n > 0: after the
\*              read, n - 1 of tab2's elements rendered;
\*   at "tab3": in tab3 with tab2 done; n = 0: before the Run Deep Analysis
\*              handler; n = 1: in the handler, after its get_historic_data()
\*              and before st.session_state is set;
\*   at "none": the run reaches the end of the script.
\* When Run Deep Analysis was not clicked, a run in tab3 has nothing left to
\* do that changes the state: a stop there is as "none".
Stop(at, n) == [at |-> at, n |-> n]

Completes == Stop("none", 0)

StopPoints ==
    {Stop("tab1", n) : n \in 0..(KpiCards + 1)}
        \cup {Stop("tab2", n) : n \in 0..(KpiCards + Charts + 1)}
        \cup {Stop("tab3", n) : n \in 0..1}
        \cup {Completes}

\* the stops of a run that does not enter the Run Deep Analysis handler
StopsBeforeTab3 == {sp \in StopPoints : sp.at # "tab3"}

\* the sets of downloads that may raise in one read of the corpus
Failures(isMiss, st) == IF isMiss THEN SUBSET Downloadable(st) ELSE {{}}

\* One run of the script, top to bottom.  files: the uploader's files in this
\* run; commit, refresh, deep: the button clicked; failAt: the index of the
\* upload that raises (Len + 1: none); stopAt: the index of the upload after
\* whose upload_blob the run is stopped at st.toast, progress_bar.progress
\* or progress_text.text, Len + 1: stopped at progress_text.text after
\* st.cache_data.clear(), NoStop: not stopped there; stop: see StopPoints;
\* expire: the cache entry's ttl runs out between tab2's read of the corpus
\* and the read of the Run Deep Analysis handler; keep: see upload_to_azure.
\* An upload that raises, or a stop, ends the run there: what follows in the
\* script is not reached.  The downloads that raise in get_historic_data are
\* chosen here (failed1 for tab2's read, failed2 for the handler's).
RunPlan(files, commit, refresh, deep, failAt, stopAt, stop, expire) ==
    LET valid == ValidFiles(files)
        inTab1 == stop.at = "tab1"
        canCommit == commit /\ ~inTab1 /\ HasValidDfs(files)
        raised == canCommit /\ failAt <= Len(valid)
        stopped == canCommit /\ ~raised /\ stopAt <= Len(valid) + 1
        tab1Done == ~inTab1 /\ ~raised /\ ~stopped
        read1 == tab1Done /\ stop # Stop("tab2", 0)
        read2 == read1 /\ deep /\ stop \in {Stop("tab3", 1), Completes}
    IN [valid |-> valid,
        \* the elements of tab1 rendered
        shown1 |-> IF inTab1 THEN stop.n ELSE KpiCards + 1,
        \* the uploads that returned
        nUp |-> IF canCommit
                THEN Min(Min(failAt - 1, stopAt), Len(valid))
                ELSE 0,
        \* st.success("Historic Database Updated.") is reached
        committed |-> canCommit /\ ~raised /\ stopAt = NoStop,
        \* st.cache_data.clear(): after the whole commit loop, or on Refresh
        cleared |-> \/ canCommit /\ ~raised /\ stopAt > Len(valid)
                    \/ refresh /\ tab1Done,
        \* tab2's get_historic_data() is reached
        read1 |-> read1,
        \* the elements of tab2 rendered
        shown2 |-> IF ~read1 THEN 0
                   ELSE IF stop.at = "tab2" THEN stop.n - 1
                   ELSE 1 + KpiCards + Charts,
        \* the handler's get_historic_data() is reached
        read2 |-> read2,
        \* the cache entry expired before the handler's read
        reread |-> read2 /\ expire,
        \* the handler sets st.session_state
        handled |-> read2 /\ stop = Completes,
        \* the run reached the end of the script
        complete |-> tab1Done /\ stop = Completes]

ScriptRun(files, commit, refresh, deep, failAt, stopAt, stop, expire, keep) ==
    /\ runs < MaxRuns
    /\ runs' = runs + 1
    /\ \E p \in {RunPlan(files, commit, refresh, deep, failAt, stopAt, stop, expire)} :
       \E store1 \in {UploadAll(store, p.valid, p.nUp, keep)} :
       \E cache1 \in {IF p.cleared THEN NoCache ELSE cache} :
       \E pending \in {lastRun.unseen \cup {p.valid[i].name : i \in 1..p.nUp}} :
       \E failed1 \in Failures(p.read1 /\ ~cache1.valid, store1) :
       \E hist1 \in {get_historic_data(cache1, store1, failed1)} :
       \E failed2 \in Failures(p.reread, store1) :
       \E hist2 \in {IF p.reread THEN get_historic_data(NoCache, store1, failed2)
                                 ELSE hist1} :
          /\ uploaded_files' = files
          /\ store' = store1
          /\ cache' = IF p.read1 THEN [valid |-> TRUE, value |-> hist2] ELSE cache1
          /\ tab1' = Tab1Upto(files, p.shown1, p.committed)
          /\ tab2' = DashboardUpto(hist1, p.shown2)
          /\ session' = IF p.handled /\ hist2 # <<>>
                        THEN [analysis_active |-> TRUE]
                        ELSE session
          /\ lastRun' = [ran |-> TRUE,
                         aborted |-> ~p.complete,
                         miss |-> (p.read1 /\ ~cache1.valid) \/ p.reread,
                         reread |-> p.reread,
                         failed |-> IF p.reread THEN failed2 ELSE failed1,
                         unseen |-> IF p.read1 THEN {} ELSE pending,
                         stale |-> IF p.read1
                                   THEN Stale(pending, store1, hist1, failed1)
                                   ELSE {},
                         rewrote |-> Rewrote(store, p.valid, p.nUp, keep)]
          /\ UNCHANGED <<inFile, outDf, ingested>>

\* the uploader's files change: a run with no button clicked
ChangeUploads ==
    \E files \in Batches, stop \in StopsBeforeTab3 :
        /\ files # uploaded_files
        /\ ScriptRun(files, FALSE, FALSE, FALSE, 1, NoStop, stop, FALSE, FALSE)

\* "Commit All to Historic Database": rendered only when a file validated.
\* The run is stopped before the handler, or one upload raises, or the run
\* is stopped in the handler, or the handler completes and the run goes on
\* to tab2.
ClickCommit ==
    \E n \in {Len(ValidFiles(uploaded_files))} :
    \E failAt \in 1..(n + 1), stopAt \in (1..(n + 1)) \cup {NoStop},
       stop \in StopsBeforeTab3, keep \in BOOLEAN :
        /\ HasValidDfs(uploaded_files)
        /\ failAt <= n => stopAt = NoStop
        /\ (failAt <= n \/ stopAt # NoStop) => stop = Completes
        /\ stop.at = "tab1" => (failAt = n + 1 /\ stopAt = NoStop /\ ~keep)
        /\ ScriptRun(uploaded_files, TRUE, FALSE, FALSE, failAt, stopAt,
                     stop, FALSE, keep)

\* "Refresh"
ClickRefresh ==
    \E stop \in StopsBeforeTab3 :
        ScriptRun(uploaded_files, FALSE, TRUE, FALSE, 1, NoStop, stop,
                  FALSE, FALSE)

\* "Run Deep Analysis".  The cache entry can expire between tab2's read and
\* the handler's, when the run gets that far.
ClickDeepAnalysis ==
    \E stop \in StopPoints, expire \in BOOLEAN :
        /\ expire => stop \in {Stop("tab3", 1), Completes}
        /\ ScriptRun(uploaded_files, FALSE, FALSE, TRUE, 1, NoStop, stop,
                     expire, FALSE)

\* ttl=600: the cached corpus expires
CacheExpire ==
    /\ cache.valid
    /\ cache' = NoCache
    /\ UNCHANGED <<store, uploaded_files, tab1, tab2, session, runs,
                   lastRun, inFile, outDf, ingested>>

NoRun ==
    [ran |-> FALSE, aborted |-> FALSE, miss |-> FALSE, reread |-> FALSE,
     failed |-> {},
     unseen |-> {}, stale |-> {}, rewrote |-> {}]

AppInit(stores) ==
    /\ store \in stores
    /\ cache = NoCache
    /\ uploaded_files = <<>>
    /\ tab1 = Tab1Idle
    /\ tab2 = NotRendered
    /\ session = [analysis_active |-> FALSE]
    /\ runs = 0
    /\ lastRun = NoRun

Init ==
    /\ AppInit(InitialStores)
    /\ inFile = File(NameAlarmCsv, DocMixed)
    /\ outDf = None
    /\ ingested = FALSE

Next ==
    \/ ChangeUploads
    \/ ClickCommit
    \/ ClickRefresh
    \/ ClickDeepAnalysis
    \/ CacheExpire

Spec == Init /\ [][Next]_vars

----------------------------------------------------------------------------
(* process_alarm_df on its own, over the bounded inputs *)

IngestInit ==
    /\ AppInit({{}})
    /\ inFile \in IngestFiles
    /\ outDf = None
    /\ ingested = FALSE

Ingest ==
    /\ ~ingested
    /\ outDf' = process_alarm_df(inFile.doc, inFile.name)
    /\ ingested' = TRUE
    /\ UNCHANGED <<inFile, store, cache, uploaded_files, tab1, tab2,
                   session, runs, lastRun>>

IngestNext == Ingest

SpecIngest == IngestInit /\ [][IngestNext]_vars

----------------------------------------------------------------------------
(* Properties of process_alarm_df (checked under SpecIngest) *)

\* the sheet of the input document that the reader reads
ReadSheet ==
    inFile.doc.sheets[IF IsExcelName(inFile.name)
                      THEN TargetSheet(inFile.doc.sheets) ELSE 1]

\* the bytes are of the kind the reader chosen by the file name expects
Readable ==
    /\ inFile.doc.sheets # <<>>
    /\ inFile.doc.fmt = IF IsExcelName(inFile.name) THEN "excel" ELSE "csv"

\* a header lacks one of the three required labels after normalization
LacksRequired(hdr) ==
    \E c \in {ColAlertTime, ColVerification, ColSeverity} :
        \A i \in 1..Len(hdr) : NormalizeLabel(hdr[i]) # c

NonEmptyAlert(r) == r.alert.kind # "empty"

\* the input rows that have an Alert Time cell
RowsWithAlert == SelectSeq(ReadSheet.rows, NonEmptyAlert)

\* C1: every event of a table returned by process_alarm_df has a parsed,
\* non-null alert time: a row whose Alert Time cell is empty or does not
\* parse is absent from the output.
C1_AlertTimeNeverNull ==
    (ingested /\ outDf.ok) =>
        \A i \in 1..Len(outDf.rows) : ~outDf.rows[i].Alert_Time.nan

\* C4: ingestion of one document is all-or-nothing.  Unreadable bytes, or a
\* header lacking a required column after normalization, give the rejected
\* outcome with no rows; an accepted document gives the full table, one event
\* for each input row that has an Alert Time cell.
C4_AllOrNothing ==
    ingested =>
        /\ ~Readable => outDf = None
        /\ (Readable /\ LacksRequired(ReadSheet.hdr)) => outDf = None
        /\ ~outDf.ok => outDf.rows = <<>>
        /\ outDf.ok => Len(outDf.rows) = Len(RowsWithAlert)

\* C4 witness: a readable document at the fixed offset whose header lacks only
\* the verification column, with well-formed rows, has been rejected.
C4_Witness ==
    /\ ingested
    /\ Readable
    /\ ReadSheet.pre = HeaderOffset
    /\ ReadSheet.hdr = HdrNoVerification
    /\ RowsWithAlert # <<>>
    /\ outDf = None

\* C6: whatever row k of the scan window holds the header, ingestion uses
\* row k as the header row: a readable document whose header row (at any
\* k <= MaxPre, inside the 10-row window) has the required labels is accepted
\* with the rows below that header.
C6_HeaderFoundAtAnyRow ==
    (ingested /\ Readable /\ ~LacksRequired(ReadSheet.hdr)) =>
        /\ outDf.ok
        /\ Len(outDf.rows) = Len(RowsWithAlert)

\* C7: per output row, with both timestamps present Response_Time_Mins is
\* verification minus alert (signed) and SOP_Violation is Response > 30
\* minutes, strictly; with no parsed verification time Response_Time_Mins is
\* absent, SOP_Violation false and Is_Critical_Gap is "severity contains high".
C7_DerivedFields ==
    (ingested /\ outDf.ok) =>
        /\ Len(outDf.rows) = Len(RowsWithAlert)
        /\ \A i \in 1..Len(outDf.rows) :
            LET r == RowsWithAlert[i]
                e == outDf.rows[i]
            IN /\ (r.alert.kind = "time" /\ r.ver.kind = "time") =>
                    /\ e.Response_Time_Mins = Val(r.ver.t - r.alert.t)
                    /\ e.SOP_Violation = (r.ver.t - r.alert.t > 30 * 60)
               /\ r.ver.kind # "time" =>
                    /\ e.Response_Time_Mins.nan
                    /\ ~e.SOP_Violation
                    /\ e.Is_Critical_Gap = (r.sev \in {"High", "HIGH RISK"})

\* C7 witness: one table holds a response of exactly 30 minutes that is no
\* violation and an unverified high-severity row flagged as a critical gap.
C7_Witness ==
    /\ ingested
    /\ outDf.ok
    /\ \E i, j \in 1..Len(outDf.rows) :
        /\ outDf.rows[i].Response_Time_Mins = Val(30 * 60)
        /\ ~outDf.rows[i].SOP_Violation
        /\ outDf.rows[j].Response_Time_Mins.nan
        /\ outDf.rows[j].Is_Critical_Gap

----------------------------------------------------------------------------
(* Properties of the application runs (checked under Spec) *)

\* the last run reached the end of the script
Rendered == lastRun.ran /\ ~lastRun.aborted

\* the last run reached the end of the script and the cache holds the corpus
\* that its tab2 was rendered from
Tab2OfCache == Rendered /\ cache.valid /\ ~lastRun.reread

FileOfBlob(b) == File(b.name, b.doc)

\* C2: after a successful write of a document by the commit action the cache
\* is invalidated before the next analytics read, so that read returns the
\* document's events, also when a later upload of the same commit failed.
\* Stated for the file names the corpus includes: no document written under
\* such a name is missing from the corpus of the next read.
C2_WrittenIsVisibleToNextRead ==
    \A n \in lastRun.stale : ~IncludedInCorpus(n)

\* C3: after committing a file whose bytes the store already held under that
\* name, the store holds one object of that name and the corpus read after
\* the invalidation holds that file's events exactly once (the downloads
\* that raised in that read set aside).
C3_ExactlyOnceAnyName ==
    (Rendered /\ cache.valid) =>
        \A n \in lastRun.rewrote \ lastRun.failed :
            /\ Cardinality({b \in store : b.name = n}) = 1
            /\ \A b \in store : b.name = n => NameEvents(cache.value, n) = BlobEvents(b)

\* C5: whenever a run of get_historic_data rebuilt the corpus (in a run that
\* completed or in one that was stopped later), an object whose download
\* fails or that is rejected is skipped, and every other included object
\* that processes successfully contributes all its events.
C5_FailureIsIsolated ==
    (lastRun.miss /\ cache.valid) =>
        \A b \in store :
            (/\ IncludedInCorpus(b.name)
             /\ b.name \notin lastRun.failed
             /\ process_alarm_df(b.doc, b.name).ok)
            => NameEvents(cache.value, b.name) = BlobEvents(b)

\* C5 witness: the corpus was rebuilt while the download of the first listed
\* object raised, and a later object's events are in the corpus.
C5_Witness ==
    /\ Rendered
    /\ lastRun.miss
    /\ cache.valid
    /\ NameAlarmCsv \in lastRun.failed
    /\ \E b \in store : b.name = NameAlarmCsv
    /\ NameEvents(cache.value, NameReportXlsx) # <<>>

\* C8: when no row of the aggregated table has a defined response time, the
\* mean handed to the presentation layer is undefined, never the number zero:
\* for the average-response card of the validated batch and for the per-date
\* mean of the daily rollup.
C8_UndefinedMeanIsNotZero ==
    /\ (tab1.view = "preview" /\ tab1.cards = KpiCards
          /\ \A i \in 1..Len(PreviewRows(uploaded_files)) :
                PreviewRows(uploaded_files)[i].Response_Time_Mins.nan)
       => tab1.avg.nan
    /\ Tab2OfCache =>
          \A k \in 1..Len(tab2.daily_stats) :
             (\A i \in 1..Len(cache.value) :
                 cache.value[i].Log_Date = tab2.daily_stats[k].Log_Date
                    => cache.value[i].Response_Time_Mins.nan)
             => tab2.daily_stats[k].Avg_Response.nan

\* C9: the compliance rate is 100 - violations / events * 100 when the event
\* total is positive, and is reported as undefined when the total is zero
\* (an empty corpus included): it is always shown by a run that reaches tab2.
C9_ComplianceReported ==
    Tab2OfCache =>
        LET total == Len(SelectSeq(cache.value, HasAlert))
            breaches == Len(SelectSeq(cache.value, IsBreach))
        IN /\ tab2.shown
           /\ total = 0 => tab2.compliance.nan
           /\ total > 0 =>
                 /\ ~tab2.compliance.nan
                 /\ tab2.compliance.num = (100 * total - 100 * breaches)
                 /\ tab2.compliance.den = total

\* C10: every object the commit action writes is a file of the uploaded batch
\* that process_alarm_df accepted; a rejected file is never written.
C10_OnlyAcceptedFilesWritten ==
    [][\A b \in store' \ store :
          /\ process_alarm_df(b.doc, b.name).ok
          /\ \E i \in 1..Len(uploaded_files') : uploaded_files'[i] = FileOfBlob(b)]_vars

\* C10 witness: a batch holding a rejected and an accepted file was
\* committed; the accepted file is stored and the rejected one is not.
C10_Witness ==
    /\ tab1.committed
    /\ \E i, j \in 1..Len(uploaded_files) :
        /\ ~IsAccepted(uploaded_files[i])
        /\ IsAccepted(uploaded_files[j])
        /\ \E b \in store : FileOfBlob(b) = uploaded_files[j]
        /\ \A b \in store : FileOfBlob(b) # uploaded_files[i]

====
